---------------------------- MODULE Spec2Model ----------------------------
(***************************************************************************)
(* Model of nix_alien/picker.py: the preset registry PICKERS, the strategy *)
(* table RUN_STRATEGIES, the two strategy executors _run_pyfzf and         *)
(* _run_shell, and the dispatcher prompt.                                  *)
(*                                                                         *)
(* A Python str is a sequence of one-character strings, so that strip,     *)
(* join, indent, Template.safe_substitute and the f-strings are computed   *)
(* character by character as the interpreter computes them.  Any other     *)
(* Python value is a record tagged with its type.  What the environment    *)
(* decides (the outcome of subprocess.run, of FzfPrompt() and of the       *)
(* client's prompt) is an input of the action that models the call.        *)
(***************************************************************************)
EXTENDS Integers, Sequences, FiniteSets, TLC

VARIABLES
    PICKERS,          \* the module global PICKERS: ordered <<key, config>> items
    RUN_STRATEGIES,   \* the module global RUN_STRATEGIES: ordered items
    _pyfzf_prompt,    \* the module global _pyfzf_prompt: 0 is None, n > 0 the n-th FzfPrompt instance
    constructed,      \* history: how many times FzfPrompt() has returned an instance
    call,             \* history: the operation last called and its arguments
    outcome,          \* history: how that call ended (a return value or a raised exception)
    launches,         \* history: the subprocess.run calls of that call, in order
    client_calls,     \* history: the FzfPrompt.prompt calls of that call, in order
    stderr            \* history: what that call wrote to sys.stderr, in order

vars == <<PICKERS, RUN_STRATEGIES, _pyfzf_prompt, constructed, call, outcome,
          launches, client_calls, stderr>>

----------------------------------------------------------------------------
(* Python values *)

None == [t |-> "None", v |-> <<>>]
PyStr(s) == [t |-> "str", v |-> s]
PyList(l) == [t |-> "list", v |-> l]
PyInt(n) == [t |-> "int", v |-> n]

\* x in l, for a list l
In(x, l) == \E i \in 1..Len(l) : l[i] = x

\* how a call ends
Return(v) == [kind |-> "return", value |-> v, exc |-> "", msg |-> <<>>]
Raise(e, m) == [kind |-> "raise", value |-> None, exc |-> e, msg |-> m]

----------------------------------------------------------------------------
(* str methods and the standard library functions the module calls *)

Letters ==
    {"a","b","c","d","e","f","g","h","i","j","k","l","m",
     "n","o","p","q","r","s","t","u","v","w","x","y","z",
     "A","B","C","D","E","F","G","H","I","J","K","L","M",
     "N","O","P","Q","R","S","T","U","V","W","X","Y","Z"}

Digits == {"0","1","2","3","4","5","6","7","8","9"}

\* str.isspace of one character (the whitespace the model's strings use)
IsSpace(c) == c \in {" ", "\t", "\n"}

RECURSIVE LStrip(_)
LStrip(s) == IF s # <<>> /\ IsSpace(Head(s)) THEN LStrip(Tail(s)) ELSE s

RECURSIVE RStrip(_)
RStrip(s) ==
    IF s # <<>> /\ IsSpace(s[Len(s)]) THEN RStrip(SubSeq(s, 1, Len(s) - 1)) ELSE s

\* str.strip()
Strip(s) == RStrip(LStrip(s))

\* sep.join(xs)
RECURSIVE Join(_, _)
Join(sep, xs) ==
    IF xs = <<>> THEN <<>>
    ELSE IF Len(xs) = 1 THEN xs[1]
    ELSE xs[1] \o sep \o Join(sep, Tail(xs))

\* str(n) of an int
RECURSIVE NatStr(_)
NatStr(n) ==
    LET d == <<"0","1","2","3","4","5","6","7","8","9">>[(n % 10) + 1]
    IN  IF n < 10 THEN <<d>> ELSE NatStr(n \div 10) \o <<d>>

IntStr(n) == IF n < 0 THEN <<"-">> \o NatStr(-n) ELSE NatStr(n)

\* text.splitlines(True): the lines of text, each keeping its line end
RECURSIVE SplitLines(_)
SplitLines(s) ==
    IF s = <<>> THEN <<>>
    ELSE IF \E i \in 1..Len(s) : s[i] = "\n"
         THEN LET i == CHOOSE j \in 1..Len(s) :
                          s[j] = "\n" /\ \A k \in 1..(j - 1) : s[k] # "\n"
              IN  <<SubSeq(s, 1, i)>> \o SplitLines(SubSeq(s, i + 1, Len(s)))
         ELSE <<s>>

\* the lines of textwrap.indent(text, prefix): the prefix goes before every
\* line that does not consist of whitespace alone
RECURSIVE IndentLines(_, _)
IndentLines(ls, prefix) ==
    IF ls = <<>> THEN <<>>
    ELSE (IF Strip(Head(ls)) # <<>> THEN prefix \o Head(ls) ELSE Head(ls))
         \o IndentLines(Tail(ls), prefix)

\* textwrap.indent(text, prefix)
indent(text, prefix) == IndentLines(SplitLines(text), prefix)

_INDENT == (* "  " *) <<" "," ">>

\* string.Template: the identifier pattern [_a-z][_a-z0-9]* under re.IGNORECASE
IsIdStart(c) == c \in Letters \cup {"_"}
IsIdChar(c) == c \in Letters \cup Digits \cup {"_"}

\* the length of the longest identifier that s starts with (0 when there is none)
RECURSIVE IdRun(_)
IdRun(s) == IF s # <<>> /\ IsIdChar(Head(s)) THEN 1 + IdRun(Tail(s)) ELSE 0

IdLen(s) == IF s # <<>> /\ IsIdStart(Head(s)) THEN IdRun(s) ELSE 0

\* str.replace("$title", title) instead of a template: the identifier is not
\* read to its end
RECURSIVE safe_substitute_Replace(_, _)
safe_substitute_Replace(arg, title) ==
    IF arg = <<>> THEN <<>>
    ELSE IF Len(arg) >= 6 /\ SubSeq(arg, 1, 6) = (* "$title" *) <<"$","t","i","t","l","e">>
    THEN title \o safe_substitute_Replace(SubSeq(arg, 7, Len(arg)), title)
    ELSE IF Len(arg) >= 2 /\ SubSeq(arg, 1, 2) = (* "$$" *) <<"$","$">>
    THEN <<"$">> \o safe_substitute_Replace(SubSeq(arg, 3, Len(arg)), title)
    ELSE <<Head(arg)>> \o safe_substitute_Replace(Tail(arg), title)

\* Template(arg).safe_substitute(title=title): the template is scanned left to
\* right for the delimiter; after it the alternatives are tried in the order
\* escaped ($$), named ($id), braced (${id}), invalid (a lone delimiter).  A
\* named or braced identifier other than "title" is a KeyError, which
\* safe_substitute answers with the matched text; so it does an invalid one.
RECURSIVE safe_substitute(_, _)
safe_substitute(arg, title) ==
    IF arg = <<>> THEN <<>>
    ELSE IF Head(arg) # "$" THEN <<Head(arg)>> \o safe_substitute(Tail(arg), title)
    ELSE LET r == Tail(arg)
             n == IdLen(r)
             b == IF r # <<>> /\ Head(r) = "{" THEN IdLen(Tail(r)) ELSE 0
         IN  IF r # <<>> /\ Head(r) = "$"
             THEN <<"$">> \o safe_substitute(Tail(r), title)
             ELSE IF n > 0
             THEN (IF SubSeq(r, 1, n) = (* "title" *) <<"t","i","t","l","e">>
                   THEN title
                   ELSE <<"$">> \o SubSeq(r, 1, n))
                  \o safe_substitute(SubSeq(r, n + 1, Len(r)), title)
             ELSE IF b > 0 /\ Len(r) >= b + 2 /\ r[b + 2] = "}"
             THEN (IF SubSeq(r, 2, b + 1) = (* "title" *) <<"t","i","t","l","e">>
                   THEN title
                   ELSE <<"$">> \o SubSeq(r, 1, b + 2))
                  \o safe_substitute(SubSeq(r, b + 3, Len(r)), title)
             ELSE <<"$">> \o safe_substitute(r, title)

\* [Template(arg).safe_substitute(title=title) for arg in args]
FormatArgs(args, title) == [i \in 1..Len(args) |-> safe_substitute(args[i], title)]

----------------------------------------------------------------------------
(* _run_shell *)

\* a first handler that catches nothing
IsFileNotFoundError_Never(e) == FALSE

\* the exception classes the first handler of _run_shell catches
IsFileNotFoundError(e) == e = "FileNotFoundError"

\* what subprocess.run does: it raises, or the process completes
ProcRaise(e, m) ==
    [kind |-> "raise", exc |-> e, msg |-> m, returncode |-> 0, stdout |-> <<>>, stderr |-> <<>>]
Completed(rc, out, err) ==
    [kind |-> "completed", exc |-> "", msg |-> <<>>, returncode |-> rc, stdout |-> out, stderr |-> err]

\* the ignore codes looked at before the success codes
ClassifyExit_IgnoreFirst(proc, success_exit_codes, ignore_exit_codes) ==
    IF In(proc.returncode, ignore_exit_codes)
    THEN Return(None)
    ELSE IF In(proc.returncode, success_exit_codes)
    THEN LET out == Strip(proc.stdout)
         IN  Return(IF out # <<>> THEN PyStr(out) ELSE None)
    ELSE LET err == IF Strip(proc.stderr) # <<>> THEN Strip(proc.stderr)
                    ELSE (* "No error message returned." *) <<"N","o"," ","e","r","r","o","r"," ","m","e","s","s","a","g","e"," ","r","e","t","u","r","n","e","d",".">>
         IN  Raise("RuntimeError",
                   (* "Exit code " *) <<"E","x","i","t"," ","c","o","d","e"," ">> \o IntStr(proc.returncode) \o (* ": \n" *) <<":"," ","\n">> \o err)

\* the ignore codes not looked at
ClassifyExit_NoIgnore(proc, success_exit_codes, ignore_exit_codes) ==
    IF In(proc.returncode, success_exit_codes)
    THEN LET out == Strip(proc.stdout)
         IN  Return(IF out # <<>> THEN PyStr(out) ELSE None)
    ELSE LET err == IF Strip(proc.stderr) # <<>> THEN Strip(proc.stderr)
                    ELSE (* "No error message returned." *) <<"N","o"," ","e","r","r","o","r"," ","m","e","s","s","a","g","e"," ","r","e","t","u","r","n","e","d",".">>
         IN  Raise("RuntimeError",
                   (* "Exit code " *) <<"E","x","i","t"," ","c","o","d","e"," ">> \o IntStr(proc.returncode) \o (* ": \n" *) <<":"," ","\n">> \o err)

\* the body of the try, after subprocess.run has returned proc
ClassifyExit(proc, success_exit_codes, ignore_exit_codes) ==
    IF In(proc.returncode, success_exit_codes)
    THEN LET out == Strip(proc.stdout)
         IN  Return(IF out # <<>> THEN PyStr(out) ELSE None)
    ELSE IF In(proc.returncode, ignore_exit_codes)
    THEN Return(None)
    ELSE LET err == IF Strip(proc.stderr) # <<>> THEN Strip(proc.stderr)
                    ELSE (* "No error message returned." *) <<"N","o"," ","e","r","r","o","r"," ","m","e","s","s","a","g","e"," ","r","e","t","u","r","n","e","d",".">>
         IN  Raise("RuntimeError",
                   (* "Exit code " *) <<"E","x","i","t"," ","c","o","d","e"," ">> \o IntStr(proc.returncode) \o (* ": \n" *) <<":"," ","\n">> \o err)

\* the two except clauses around the try
HandleShellError(raised, command, formatted_args) ==
    IF IsFileNotFoundError(raised.exc)
    THEN Raise("FileNotFoundError",
               (* "Could not find the binary '" *) <<"C","o","u","l","d"," ","n","o","t"," ","f","i","n","d"," ","t","h","e"," ","b","i","n","a","r","y"," ","'">> \o command \o (* "' in your PATH." *) <<"'"," ","i","n"," ","y","o","u","r"," ","P","A","T","H",".">>)
    ELSE Raise("RuntimeError",
               (* "Failed to execute shell command: " *) <<"F","a","i","l","e","d"," ","t","o"," ","e","x","e","c","u","t","e"," ","s","h","e","l","l"," ","c","o","m","m","a","n","d",":"," ">> \o command \o <<" ">>
               \o Join(<<" ">>, formatted_args) \o (* "'\n" *) <<"'","\n">> \o indent(raised.msg, _INDENT))

\* the command taken as given
TrimCommand_Raw(command) == command

\* command = command.strip()
TrimCommand(command) == Strip(command)

\* _run_shell(entries, title, command, args, success_exit_codes,
\* ignore_exit_codes, entry_separator), where env is what subprocess.run does
\* if it is called.  The result holds how the call ends and the subprocess.run
\* calls it made.
_run_shell(entries, title, command, args, success_exit_codes, ignore_exit_codes, entry_separator, env) ==
    LET args1 == IF args = None THEN <<>> ELSE args.v
        succ == IF success_exit_codes = None THEN <<>> ELSE success_exit_codes.v
        ign == IF ignore_exit_codes = None THEN <<>> ELSE ignore_exit_codes.v
    IN  IF command.t # "str"
        THEN [out |-> Raise("AttributeError",
                            (* "'NoneType' object has no attribute 'strip'" *) <<"'","N","o","n","e","T","y","p","e","'"," ","o","b","j","e","c","t"," ","h","a","s"," ","n","o"," ","a","t","t","r","i","b","u","t","e"," ","'","s","t","r","i","p","'">>),
              launches |-> <<>>]
        ELSE LET cmd == TrimCommand(command.v)
                 formatted_args == FormatArgs(args1, title)
                 full_cmd == <<cmd>> \o formatted_args
                 run == [cmd |-> full_cmd, input |-> Join(entry_separator, entries)]
                 tried == IF env.kind = "raise" THEN Raise(env.exc, env.msg)
                          ELSE ClassifyExit(env, succ, ign)
             IN  IF cmd = <<>>
                 THEN [out |-> Raise("ValueError",
                                     (* "Given 'command' parameter is empty or whitespace only: '{command}'" *) <<"G","i","v","e","n"," ","'","c","o","m","m","a","n","d","'"," ","p","a","r","a","m","e","t","e","r"," ","i","s"," ","e","m","p","t","y"," ","o","r"," ","w","h","i","t","e","s","p","a","c","e"," ","o","n","l","y",":"," ","'","{","c","o","m","m","a","n","d","}","'">>),
                       launches |-> <<>>]
                 ELSE [out |-> IF tried.kind = "raise"
                               THEN HandleShellError(tried, cmd, formatted_args)
                               ELSE tried,
                       launches |-> <<run>>]

----------------------------------------------------------------------------
(* _run_pyfzf *)

\* shlex.quote(s): the characters outside [A-Za-z0-9_@%+=:,./-] are unsafe
IsShellSafe(c) == c \in Letters \cup Digits \cup {"_", "@", "%", "+", "=", ":", ",", ".", "/", "-"}

RECURSIVE EscapeQuotes(_)
EscapeQuotes(s) ==
    IF s = <<>> THEN <<>>
    ELSE (IF Head(s) = "'" THEN (* "'"'"'" *) <<"'","\"","'","\"","'">> ELSE <<Head(s)>>) \o EscapeQuotes(Tail(s))

quote(s) ==
    IF s = <<>> THEN (* "''" *) <<"'","'">>
    ELSE IF \A i \in 1..Len(s) : IsShellSafe(s[i]) THEN s
    ELSE <<"'">> \o EscapeQuotes(s) \o <<"'">>

\* shlex.join(split_command)
join(split_command) ==
    Join(<<" ">>, [i \in 1..Len(split_command) |-> quote(split_command[i])])

\* a client made on every call
GetClient_Always(cur, n, construct) ==
    IF construct.kind = "raise"
    THEN [raised |-> TRUE, out |-> construct, client |-> cur, constructed |-> n]
    ELSE [raised |-> FALSE, out |-> construct, client |-> n + 1, constructed |-> n + 1]

\* "if _pyfzf_prompt is None: _pyfzf_prompt = FzfPrompt()", where cur is the
\* global's value, n the instances made so far and construct what FzfPrompt()
\* does if it is called
GetClient(cur, n, construct) ==
    IF cur = 0
    THEN IF construct.kind = "raise"
         THEN [raised |-> TRUE, out |-> construct, client |-> cur, constructed |-> n]
         ELSE [raised |-> FALSE, out |-> construct, client |-> n + 1, constructed |-> n + 1]
    ELSE [raised |-> FALSE, out |-> Return(None), client |-> cur, constructed |-> n]

\* the last selected entry instead of the first
PickResult_Last(result) ==
    IF result # <<>> THEN Return(PyStr(result[Len(result)])) ELSE Return(None)

\* "if result := ...: return result[0]" and "return None"
PickResult(result) == IF result # <<>> THEN Return(PyStr(result[1])) ELSE Return(None)

\* _run_pyfzf(entries, title, args), where env.construct is what FzfPrompt()
\* does and env.client what the client's prompt does, if they are called.  The
\* result holds how the call ends, the client calls it made and the new value
\* of the global.
_run_pyfzf(entries, title, args, cur, n, env) ==
    LET args1 == IF args = None THEN <<>> ELSE args.v
        got == GetClient(cur, n, env.construct)
        options == join(args1 \o <<title \o (* "> " *) <<">"," ">>>>)
        result == env.client
    IN  IF got.raised
        THEN [out |-> got.out, client_calls |-> <<>>,
              client |-> got.client, constructed |-> got.constructed]
        ELSE [out |-> IF result.kind = "raise" THEN result ELSE PickResult(result.value.v),
              client_calls |-> <<[client |-> got.client, entries |-> entries, options |-> options]>>,
              client |-> got.client, constructed |-> got.constructed]

----------------------------------------------------------------------------
(* dict: the ordered <<key, value>> items *)

PyDict(items) == [t |-> "dict", v |-> items]
PyFunction(name) == [t |-> "function", v |-> name]

DictHas(d, k) == \E i \in 1..Len(d) : d[i][1] = k

\* d.get(k, default)
DictGet(d, k, default) ==
    IF DictHas(d, k) THEN d[CHOOSE i \in 1..Len(d) : d[i][1] = k][2] ELSE default

\* d.keys()
DictKeys(d) == [i \in 1..Len(d) |-> d[i][1]]

\* bool(x)
Truthy(x) ==
    CASE x.t = "None" -> FALSE
      [] x.t = "int" -> x.v # 0
      [] x.t \in {"str", "list", "dict"} -> x.v # <<>>
      [] OTHER -> TRUE

\* type(x).__name__
TypeName(x) ==
    CASE x.t = "None" -> (* "NoneType" *) <<"N","o","n","e","T","y","p","e">>
      [] x.t = "int" -> (* "int" *) <<"i","n","t">>
      [] x.t = "str" -> (* "str" *) <<"s","t","r">>
      [] x.t = "list" -> (* "list" *) <<"l","i","s","t">>
      [] x.t = "dict" -> (* "dict" *) <<"d","i","c","t">>
      [] OTHER -> (* "function" *) <<"f","u","n","c","t","i","o","n">>

\* every value passes for a function
Callable_Always(x) == TRUE

\* callable(x)
Callable(x) == x.t = "function"

----------------------------------------------------------------------------
(* the module globals as the module defines them *)

DEFAULT_PICKER == (* "default" *) <<"d","e","f","a","u","l","t">>

ShippedPickers ==
    << <<(* "default" *) <<"d","e","f","a","u","l","t">>,
         PyDict(<< <<(* "strategy" *) <<"s","t","r","a","t","e","g","y">>, PyStr((* "pyfzf" *) <<"p","y","f","z","f">>)>>,
                   <<(* "args" *) <<"a","r","g","s">>, PyList(<<(* "--cycle" *) <<"-","-","c","y","c","l","e">>, (* "--prompt" *) <<"-","-","p","r","o","m","p","t">>>>)>> >>)>>,
       <<(* "fzf" *) <<"f","z","f">>,
         PyDict(<< <<(* "strategy" *) <<"s","t","r","a","t","e","g","y">>, PyStr((* "shell" *) <<"s","h","e","l","l">>)>>,
                   <<(* "command" *) <<"c","o","m","m","a","n","d">>, PyStr((* "fzf" *) <<"f","z","f">>)>>,
                   <<(* "args" *) <<"a","r","g","s">>, PyList(<<(* "--cycle" *) <<"-","-","c","y","c","l","e">>, (* "--prompt" *) <<"-","-","p","r","o","m","p","t">>, (* "$title" *) <<"$","t","i","t","l","e">>>>)>>,
                   <<(* "success_exit_codes" *) <<"s","u","c","c","e","s","s","_","e","x","i","t","_","c","o","d","e","s">>, PyList(<<0>>)>>,
                   <<(* "ignore_exit_codes" *) <<"i","g","n","o","r","e","_","e","x","i","t","_","c","o","d","e","s">>, PyList(<<130>>)>>,
                   <<(* "entry_separator" *) <<"e","n","t","r","y","_","s","e","p","a","r","a","t","o","r">>, PyStr(<<" ">>)>> >>)>>,
       <<(* "zenity" *) <<"z","e","n","i","t","y">>,
         PyDict(<< <<(* "strategy" *) <<"s","t","r","a","t","e","g","y">>, PyStr((* "shell" *) <<"s","h","e","l","l">>)>>,
                   <<(* "command" *) <<"c","o","m","m","a","n","d">>, PyStr((* "zenity" *) <<"z","e","n","i","t","y">>)>>,
                   <<(* "args" *) <<"a","r","g","s">>, PyList(<<(* "--list" *) <<"-","-","l","i","s","t">>,
                                        (* "--title=nix-alien: Choose a package" *) <<"-","-","t","i","t","l","e","=","n","i","x","-","a","l","i","e","n",":"," ","C","h","o","o","s","e"," ","a"," ","p","a","c","k","a","g","e">>,
                                        (* "--text=$title" *) <<"-","-","t","e","x","t","=","$","t","i","t","l","e">>,
                                        (* "--column=Libraries" *) <<"-","-","c","o","l","u","m","n","=","L","i","b","r","a","r","i","e","s">>>>)>>,
                   <<(* "success_exit_codes" *) <<"s","u","c","c","e","s","s","_","e","x","i","t","_","c","o","d","e","s">>, PyList(<<0>>)>>,
                   <<(* "ignore_exit_codes" *) <<"i","g","n","o","r","e","_","e","x","i","t","_","c","o","d","e","s">>, PyList(<<1>>)>>,
                   <<(* "entry_separator" *) <<"e","n","t","r","y","_","s","e","p","a","r","a","t","o","r">>, PyStr(<<" ">>)>> >>)>> >>

ShippedStrategies ==
    << <<(* "pyfzf" *) <<"p","y","f","z","f">>, PyFunction("_run_pyfzf")>>,
       <<(* "shell" *) <<"s","h","e","l","l">>, PyFunction("_run_shell")>> >>

----------------------------------------------------------------------------
(* prompt *)

\* get_print(silent)(message): what reaches sys.stderr
get_print(silent, message) == IF silent THEN <<>> ELSE <<message>>

Diag(kind, text) == [kind |-> kind, text |-> text, config |-> None, tail |-> <<>>]

\* the parameters after entries and title that have no default
Required(fn) ==
    IF fn = "_run_shell"
    THEN <<(* "command" *) <<"c","o","m","m","a","n","d">>, (* "args" *) <<"a","r","g","s">>, (* "success_exit_codes" *) <<"s","u","c","c","e","s","s","_","e","x","i","t","_","c","o","d","e","s">>, (* "ignore_exit_codes" *) <<"i","g","n","o","r","e","_","e","x","i","t","_","c","o","d","e","s">>>>
    ELSE <<(* "args" *) <<"a","r","g","s">>>>

FnName(fn) == IF fn = "_run_shell" THEN (* "_run_shell" *) <<"_","r","u","n","_","s","h","e","l","l">> ELSE (* "_run_pyfzf" *) <<"_","r","u","n","_","p","y","f","z","f">>

\* the names of a TypeError: 'a' / 'a' and 'b' / 'a', 'b', and 'c'
RECURSIVE NameList(_)
NameList(ks) ==
    IF Len(ks) = 1 THEN <<"'">> \o ks[1] \o <<"'">>
    ELSE IF Len(ks) = 2 THEN <<"'">> \o ks[1] \o (* "' and '" *) <<"'"," ","a","n","d"," ","'">> \o ks[2] \o <<"'">>
    ELSE <<"'">> \o ks[1] \o (* "', " *) <<"'",","," ">>
         \o (IF Len(ks) = 3
             THEN <<"'">> \o ks[2] \o (* "', and '" *) <<"'",","," ","a","n","d"," ","'">> \o ks[3] \o <<"'">>
             ELSE NameList(Tail(ks)))

\* the TypeError of the call fn(entries, prompt_title, **config), <<>> when
\* the arguments bind
BindError(fn, config) ==
    LET twice == SelectSeq(<<(* "entries" *) <<"e","n","t","r","i","e","s">>, (* "title" *) <<"t","i","t","l","e">>>>, LAMBDA k : DictHas(config, k))
        missing == SelectSeq(Required(fn), LAMBDA k : ~DictHas(config, k))
    IN  IF twice # <<>>
        THEN FnName(fn) \o (* "() got multiple values for argument '" *) <<"(",")"," ","g","o","t"," ","m","u","l","t","i","p","l","e"," ","v","a","l","u","e","s"," ","f","o","r"," ","a","r","g","u","m","e","n","t"," ","'">> \o twice[1] \o <<"'">>
        ELSE IF missing # <<>>
        THEN FnName(fn) \o (* "() missing " *) <<"(",")"," ","m","i","s","s","i","n","g"," ">> \o IntStr(Len(missing))
             \o (* " required positional argument" *) <<" ","r","e","q","u","i","r","e","d"," ","p","o","s","i","t","i","o","n","a","l"," ","a","r","g","u","m","e","n","t">>
             \o (IF Len(missing) > 1 THEN <<"s">> ELSE <<>>)
             \o (* ": " *) <<":"," ">> \o NameList(missing)
        ELSE <<>>

\* executor(entries, prompt_title, **picker_config)
Invoke(executor, entries, title, config, cur, n, env) ==
    LET fn == executor.v IN
    IF executor.t # "function"
    THEN [out |-> Raise("TypeError", <<"'">> \o TypeName(executor) \o (* "' object is not callable" *) <<"'"," ","o","b","j","e","c","t"," ","i","s"," ","n","o","t"," ","c","a","l","l","a","b","l","e">>),
          launches |-> <<>>,
          client_calls |-> <<>>, client |-> cur, constructed |-> n]
    ELSE IF BindError(fn, config) # <<>>
    THEN [out |-> Raise("TypeError", BindError(fn, config)), launches |-> <<>>,
          client_calls |-> <<>>, client |-> cur, constructed |-> n]
    ELSE IF fn = "_run_shell"
    THEN LET r == _run_shell(entries, title,
                             DictGet(config, (* "command" *) <<"c","o","m","m","a","n","d">>, None),
                             DictGet(config, (* "args" *) <<"a","r","g","s">>, None),
                             DictGet(config, (* "success_exit_codes" *) <<"s","u","c","c","e","s","s","_","e","x","i","t","_","c","o","d","e","s">>, None),
                             DictGet(config, (* "ignore_exit_codes" *) <<"i","g","n","o","r","e","_","e","x","i","t","_","c","o","d","e","s">>, None),
                             DictGet(config, (* "entry_separator" *) <<"e","n","t","r","y","_","s","e","p","a","r","a","t","o","r">>, PyStr(<<"\n">>)).v,
                             env.proc)
         IN  [out |-> r.out, launches |-> r.launches, client_calls |-> <<>>,
              client |-> cur, constructed |-> n]
    ELSE LET r == _run_pyfzf(entries, title, DictGet(config, (* "args" *) <<"a","r","g","s">>, None), cur, n, env)
         IN  [out |-> r.out, launches |-> <<>>, client_calls |-> r.client_calls,
              client |-> r.client, constructed |-> r.constructed]

\* the try around the executor's call: an Exception is printed and the
\* result stays None.  str(picker_config) is kept as the config itself.
Guarded(r, picker_id, strat_name, prompt_title, picker_config, silent) ==
    IF r.out.kind = "raise"
    THEN [r EXCEPT !.out = Return(None)]
         @@ [stderr |-> get_print(silent,
                [kind |-> "executor_error",
                 text |-> (* "Picker preset '" *) <<"P","i","c","k","e","r"," ","p","r","e","s","e","t"," ","'">> \o picker_id \o (* "' (with strategy '" *) <<"'"," ","(","w","i","t","h"," ","s","t","r","a","t","e","g","y"," ","'">>
                          \o strat_name \o (* "') (called with params: title=" *) <<"'",")"," ","(","c","a","l","l","e","d"," ","w","i","t","h"," ","p","a","r","a","m","s",":"," ","t","i","t","l","e","=">>
                          \o prompt_title \o (* ", config=" *) <<","," ","c","o","n","f","i","g","=">>,
                 config |-> picker_config,
                 tail |-> (* ") raised the following error:\n" *) <<")"," ","r","a","i","s","e","d"," ","t","h","e"," ","f","o","l","l","o","w","i","n","g"," ","e","r","r","o","r",":","\n">>
                          \o indent(r.out.msg, _INDENT)])]
    ELSE r @@ [stderr |-> <<>>]

\* an early return of prompt: nothing was invoked
Early(out, printed, cur, n) ==
    [out |-> out, launches |-> <<>>, client_calls |-> <<>>, client |-> cur,
     constructed |-> n, stderr |-> printed]

\* the identifier looked up as given
LookupId_Raw(picker_id) == picker_id

\* picker_id = picker_id.strip()
LookupId(picker_id) == Strip(picker_id)

\* prompt(entries, picker_id, prompt_title, silent), with the globals
\* _pyfzf_prompt = cur (n instances made so far) and env what the environment
\* does.  The result holds how the call ends, what it printed, what it
\* invoked, the new value of the global and the preset it looked up.
prompt(entries, picker_id, prompt_title, silent, cur, n, env) ==
    LET id == LookupId(picker_id)
        picker_config == DictGet(PICKERS, id, None)
        strategy == DictGet(picker_config.v, (* "strategy" *) <<"s","t","r","a","t","e","g","y">>, PyStr(<<>>))
        strat_name == Strip(strategy.v)
        executor == DictGet(RUN_STRATEGIES, strat_name, None)
    IN  (IF picker_config = None
        THEN Early(Return(None),
                   get_print(silent, Diag("unknown_preset",
                       (* "Argument '" *) <<"A","r","g","u","m","e","n","t"," ","'">> \o id
                       \o (* "' is not the name of an existing picker preset." *) <<"'"," ","i","s"," ","n","o","t"," ","t","h","e"," ","n","a","m","e"," ","o","f"," ","a","n"," ","e","x","i","s","t","i","n","g"," ","p","i","c","k","e","r"," ","p","r","e","s","e","t",".">>
                       \o (* "Valid names are: '" *) <<"V","a","l","i","d"," ","n","a","m","e","s"," ","a","r","e",":"," ","'">> \o Join((* ", " *) <<","," ">>, DictKeys(PICKERS))
                       \o <<"'">>)),
                   cur, n)
        ELSE IF strategy.t # "str"
        THEN Early(Raise("AttributeError", (* "'NoneType' object has no attribute 'strip'" *) <<"'","N","o","n","e","T","y","p","e","'"," ","o","b","j","e","c","t"," ","h","a","s"," ","n","o"," ","a","t","t","r","i","b","u","t","e"," ","'","s","t","r","i","p","'">>),
                   <<>>, cur, n)
        ELSE IF strat_name = <<>>
        THEN Early(Return(None),
                   get_print(silent, Diag("empty_strategy",
                       (* "Internal Error: Preset picker config " *) <<"I","n","t","e","r","n","a","l"," ","E","r","r","o","r",":"," ","P","r","e","s","e","t"," ","p","i","c","k","e","r"," ","c","o","n","f","i","g"," ">> \o id
                       \o (* " has an empty or null 'strategy' field." *) <<" ","h","a","s"," ","a","n"," ","e","m","p","t","y"," ","o","r"," ","n","u","l","l"," ","'","s","t","r","a","t","e","g","y","'"," ","f","i","e","l","d",".">>)),
                   cur, n)
        ELSE IF ~Truthy(executor)
        THEN Early(Return(None),
                   get_print(silent, Diag("unknown_strategy",
                       (* "Internal Error: Preset picker config " *) <<"I","n","t","e","r","n","a","l"," ","E","r","r","o","r",":"," ","P","r","e","s","e","t"," ","p","i","c","k","e","r"," ","c","o","n","f","i","g"," ">> \o id
                       \o (* "uses an unknown strategy called '" *) <<"u","s","e","s"," ","a","n"," ","u","n","k","n","o","w","n"," ","s","t","r","a","t","e","g","y"," ","c","a","l","l","e","d"," ","'">> \o strat_name \o <<"'">>)),
                   cur, n)
        ELSE IF ~Callable(executor)
        THEN Early(Return(None),
                   get_print(silent, Diag("not_callable",
                       (* "Internal Error: Strategy '" *) <<"I","n","t","e","r","n","a","l"," ","E","r","r","o","r",":"," ","S","t","r","a","t","e","g","y"," ","'">> \o strat_name
                       \o (* "' points to a value that is" *) <<"'"," ","p","o","i","n","t","s"," ","t","o"," ","a"," ","v","a","l","u","e"," ","t","h","a","t"," ","i","s">> \o (* "not a function." *) <<"n","o","t"," ","a"," ","f","u","n","c","t","i","o","n",".">>)),
                   cur, n)
        ELSE Guarded(Invoke(executor, entries, prompt_title, picker_config.v, cur, n, env),
                     id, strat_name, prompt_title, picker_config, silent))
        @@ [preset |-> picker_config]

----------------------------------------------------------------------------
(* The inputs.  The module says of its presets that they "may be extended  *)
(* to add more providers": besides the presets and strategies the module   *)
(* ships, the registries hold presets and strategies of every shape that   *)
(* prompt tells apart.                                                     *)

MaxEntries == 2
MaxPieces == 3

ExtPickers ==
    << <<(* "nostrat" *) <<"n","o","s","t","r","a","t">>, PyDict(<< <<(* "args" *) <<"a","r","g","s">>, PyList(<<>>)>> >>)>>,
       <<(* "emptystrat" *) <<"e","m","p","t","y","s","t","r","a","t">>, PyDict(<< <<(* "strategy" *) <<"s","t","r","a","t","e","g","y">>, PyStr(<<>>)>> >>)>>,
       <<(* "blankstrat" *) <<"b","l","a","n","k","s","t","r","a","t">>, PyDict(<< <<(* "strategy" *) <<"s","t","r","a","t","e","g","y">>, PyStr((* " \t" *) <<" ","\t">>)>> >>)>>,
       <<(* "nullstrat" *) <<"n","u","l","l","s","t","r","a","t">>, PyDict(<< <<(* "strategy" *) <<"s","t","r","a","t","e","g","y">>, None>> >>)>>,
       <<(* "dmenu" *) <<"d","m","e","n","u">>, PyDict(<< <<(* "strategy" *) <<"s","t","r","a","t","e","g","y">>, PyStr((* "dmenu" *) <<"d","m","e","n","u">>)>> >>)>>,
       <<(* "broken" *) <<"b","r","o","k","e","n">>, PyDict(<< <<(* "strategy" *) <<"s","t","r","a","t","e","g","y">>, PyStr((* "broken" *) <<"b","r","o","k","e","n">>)>> >>)>>,
       <<(* "nil" *) <<"n","i","l">>, PyDict(<< <<(* "strategy" *) <<"s","t","r","a","t","e","g","y">>, PyStr((* "nil" *) <<"n","i","l">>)>> >>)>>,
       <<(* "nocmd" *) <<"n","o","c","m","d">>,
         PyDict(<< <<(* "strategy" *) <<"s","t","r","a","t","e","g","y">>, PyStr((* "shell" *) <<"s","h","e","l","l">>)>>,
                   <<(* "args" *) <<"a","r","g","s">>, PyList(<<>>)>>,
                   <<(* "success_exit_codes" *) <<"s","u","c","c","e","s","s","_","e","x","i","t","_","c","o","d","e","s">>, PyList(<<0>>)>>,
                   <<(* "ignore_exit_codes" *) <<"i","g","n","o","r","e","_","e","x","i","t","_","c","o","d","e","s">>, PyList(<<1>>)>> >>)>>,
       <<(* "blankcmd" *) <<"b","l","a","n","k","c","m","d">>,
         PyDict(<< <<(* "strategy" *) <<"s","t","r","a","t","e","g","y">>, PyStr((* "shell" *) <<"s","h","e","l","l">>)>>,
                   <<(* "command" *) <<"c","o","m","m","a","n","d">>, PyStr((* "  " *) <<" "," ">>)>>,
                   <<(* "args" *) <<"a","r","g","s">>, PyList(<<>>)>>,
                   <<(* "success_exit_codes" *) <<"s","u","c","c","e","s","s","_","e","x","i","t","_","c","o","d","e","s">>, PyList(<<0>>)>>,
                   <<(* "ignore_exit_codes" *) <<"i","g","n","o","r","e","_","e","x","i","t","_","c","o","d","e","s">>, PyList(<<1>>)>> >>)>>,
       <<(* "padded" *) <<"p","a","d","d","e","d">>,
         PyDict(<< <<(* "strategy" *) <<"s","t","r","a","t","e","g","y">>, PyStr((* " shell\n" *) <<" ","s","h","e","l","l","\n">>)>>,
                   <<(* "command" *) <<"c","o","m","m","a","n","d">>, PyStr((* " fzf " *) <<" ","f","z","f"," ">>)>>,
                   <<(* "args" *) <<"a","r","g","s">>, None>>,
                   <<(* "success_exit_codes" *) <<"s","u","c","c","e","s","s","_","e","x","i","t","_","c","o","d","e","s">>, PyList(<<0, 1>>)>>,
                   <<(* "ignore_exit_codes" *) <<"i","g","n","o","r","e","_","e","x","i","t","_","c","o","d","e","s">>, PyList(<<1>>)>> >>)>>,
       <<(* "noargs" *) <<"n","o","a","r","g","s">>, PyDict(<< <<(* "strategy" *) <<"s","t","r","a","t","e","g","y">>, PyStr((* "pyfzf" *) <<"p","y","f","z","f">>)>> >>)>> >>

ExtStrategies ==
    << <<(* "broken" *) <<"b","r","o","k","e","n">>, PyInt(42)>>,
       <<(* "nil" *) <<"n","i","l">>, None>> >>

ToSet(xs) == {xs[i] : i \in 1..Len(xs)}

PickerIds ==
    ToSet(DictKeys(ShippedPickers \o ExtPickers))
    \cup {(* " fzf\n" *) <<" ","f","z","f","\n">>, (* "nope" *) <<"n","o","p","e">>, <<>>}

Titles == {(* "Pick one" *) <<"P","i","c","k"," ","o","n","e">>}

\* the candidate lists: lib1, lib2, ... up to MaxEntries of them
EntryLists == {[i \in 1..k |-> (* "lib" *) <<"l","i","b">> \o IntStr(i)] : k \in 0..MaxEntries}

\* what subprocess.run may do
ProcErrors ==
    {ProcRaise("FileNotFoundError", (* "[Errno 2] No such file or directory: 'fzf'" *) <<"[","E","r","r","n","o"," ","2","]"," ","N","o"," ","s","u","c","h"," ","f","i","l","e"," ","o","r"," ","d","i","r","e","c","t","o","r","y",":"," ","'","f","z","f","'">>),
     ProcRaise("PermissionError", (* "[Errno 13] Permission denied: 'fzf'" *) <<"[","E","r","r","n","o"," ","1","3","]"," ","P","e","r","m","i","s","s","i","o","n"," ","d","e","n","i","e","d",":"," ","'","f","z","f","'">>)}

Procs ==
    ProcErrors
    \cup {Completed(rc, out, err) :
            rc \in {0, 1, 2, 130},
            out \in {(* "libfoo.so.6\n" *) <<"l","i","b","f","o","o",".","s","o",".","6","\n">>, <<"\n">>},
            err \in {<<>>, (* "boom\n" *) <<"b","o","o","m","\n">>}}

ProcsWide ==
    ProcErrors
    \cup {Completed(rc, out, err) :
            rc \in {0, 1, 2, 130, -9},
            out \in {<<>>, (* "libfoo.so.6\n" *) <<"l","i","b","f","o","o",".","s","o",".","6","\n">>, (* " \n" *) <<" ","\n">>},
            err \in {<<>>, (* "boom\n" *) <<"b","o","o","m","\n">>, (* "no display\n  at :0\n\n" *) <<"n","o"," ","d","i","s","p","l","a","y","\n"," "," ","a","t"," ",":","0","\n","\n">>}}

\* what FzfPrompt() and the client's prompt may do
Constructs ==
    {Return(None), Raise("SystemError", (* "Cannot find 'fzf' installed on PATH." *) <<"C","a","n","n","o","t"," ","f","i","n","d"," ","'","f","z","f","'"," ","i","n","s","t","a","l","l","e","d"," ","o","n"," ","P","A","T","H",".">>)}

Clients ==
    {Return(PyList(<<>>)),
     Return(PyList(<<(* "libfoo.so.6" *) <<"l","i","b","f","o","o",".","s","o",".","6">>>>)),
     Return(PyList(<<(* "libbar.so" *) <<"l","i","b","b","a","r",".","s","o">>, (* "libfoo.so.6" *) <<"l","i","b","f","o","o",".","s","o",".","6">>>>)),
     Raise("OSError", (* "[Errno 28] No space left on device" *) <<"[","E","r","r","n","o"," ","2","8","]"," ","N","o"," ","s","p","a","c","e"," ","l","e","f","t"," ","o","n"," ","d","e","v","i","c","e">>)}

Env(p, c, k) == [proc |-> p, construct |-> c, client |-> k]

Envs ==
    {Env(p, Return(None), Return(PyList(<<>>))) : p \in Procs}
    \cup {Env(Completed(0, <<>>, <<>>), c, k) : c \in Constructs, k \in Clients}

----------------------------------------------------------------------------
(* The dispatcher: any sequence of prompt calls.  The caller calls prompt  *)
(* and, when it has the result, goes on; prompt blocks, so that the next   *)
(* call starts after that.                                                 *)

NoCall == [op |-> "none", state |-> "done"]

Init ==
    /\ PICKERS = ShippedPickers \o ExtPickers
    /\ RUN_STRATEGIES = ShippedStrategies \o ExtStrategies
    /\ _pyfzf_prompt = 0
    /\ constructed = 0
    /\ call = NoCall
    /\ outcome = Return(None)
    /\ launches = <<>>
    /\ client_calls = <<>>
    /\ stderr = <<>>

Prompt ==
    /\ call = NoCall
    /\ \E entries \in {[i \in 1..MaxEntries |-> (* "lib" *) <<"l","i","b">> \o IntStr(i)]},
       picker_id \in PickerIds, prompt_title \in Titles, silent \in BOOLEAN,
       env \in Envs :
         LET r == prompt(entries, picker_id, prompt_title, silent,
                         _pyfzf_prompt, constructed, env)
         IN  /\ call' = [op |-> "prompt", state |-> "done", entries |-> entries,
                         picker_id |-> picker_id, prompt_title |-> prompt_title,
                         silent |-> silent, env |-> env, preset |-> r.preset]
             /\ outcome' = r.out
             /\ launches' = r.launches
             /\ client_calls' = r.client_calls
             /\ stderr' = r.stderr
             /\ _pyfzf_prompt' = r.client
             /\ constructed' = r.constructed
             /\ UNCHANGED <<PICKERS, RUN_STRATEGIES>>

\* the caller has the result and goes on: the globals stay, the history of
\* the call is dropped
Continue ==
    /\ call # NoCall
    /\ call.state = "done"
    /\ call' = NoCall
    /\ outcome' = Return(None)
    /\ launches' = <<>>
    /\ client_calls' = <<>>
    /\ stderr' = <<>>
    /\ UNCHANGED <<PICKERS, RUN_STRATEGIES, _pyfzf_prompt, constructed>>

Next == Prompt \/ Continue

Spec == Init /\ [][Next]_vars

----------------------------------------------------------------------------
(* The executors, called directly: the call's arguments and what the       *)
(* environment does are drawn at the start, and the executor runs on them. *)

\* the argument templates: up to MaxPieces of these pieces, in any order
Pieces == {<<"$">>, <<"{">>, <<"}">>, (* "title" *) <<"t","i","t","l","e">>, <<"x">>, <<"1">>, <<"-">>}

RECURSIVE Templates(_)
Templates(n) ==
    IF n = 0 THEN {<<>>}
    ELSE Templates(n - 1) \cup {t \o p : t \in Templates(n - 1), p \in Pieces}

ShellRequest(entries, title, command, args, succ, ign, sep, env) ==
    [op |-> "_run_shell", state |-> "pending", entries |-> entries, title |-> title,
     command |-> command, args |-> args, success_exit_codes |-> succ,
     ignore_exit_codes |-> ign, entry_separator |-> sep, env |-> env]

\* calls that differ in the command, the code lists and the process's end
ExitRequests ==
    {ShellRequest(entries, (* "Pick one" *) <<"P","i","c","k"," ","o","n","e">>, PyStr(command), args, succ, ign, sep, env) :
        entries \in EntryLists,
        command \in {<<>>, (* " \t" *) <<" ","\t">>, (* "fzf" *) <<"f","z","f">>, (* " fzf\n" *) <<" ","f","z","f","\n">>},
        args \in {None, PyList(<<(* "--prompt" *) <<"-","-","p","r","o","m","p","t">>, (* "$title" *) <<"$","t","i","t","l","e">>>>)},
        succ \in {None, PyList(<<0>>), PyList(<<0, 1>>)},
        ign \in {None, PyList(<<1>>), PyList(<<130, 0>>)},
        sep \in {<<"\n">>, <<" ">>},
        env \in ProcsWide}

\* calls that differ in the argument templates and the title
RenderRequests ==
    {ShellRequest(<<>>, title, PyStr(command), PyList(args), PyList(<<0>>), PyList(<<130>>),
                  <<"\n">>, Completed(0, (* "lib1\n" *) <<"l","i","b","1","\n">>, <<>>)) :
        title \in {(* "Pick one" *) <<"P","i","c","k"," ","o","n","e">>, <<>>, (* "$title" *) <<"$","t","i","t","l","e">>},
        command \in {(* "fzf" *) <<"f","z","f">>, <<>>},
        args \in {<<t>> : t \in Templates(MaxPieces)}
                 \cup {<<(* "--cycle" *) <<"-","-","c","y","c","l","e">>, (* "--prompt" *) <<"-","-","p","r","o","m","p","t">>, (* "$title" *) <<"$","t","i","t","l","e">>>>,
                       <<(* "$title" *) <<"$","t","i","t","l","e">>, (* "$x" *) <<"$","x">>, (* "--text=$title" *) <<"-","-","t","e","x","t","=","$","t","i","t","l","e">>, (* "$title" *) <<"$","t","i","t","l","e">>>>}}

PyfzfRequests ==
    {[op |-> "_run_pyfzf", state |-> "pending", entries |-> entries, title |-> title,
      args |-> args, env |-> Env(Completed(0, <<>>, <<>>), c, k)] :
        entries \in EntryLists,
        title \in {(* "Pick one" *) <<"P","i","c","k"," ","o","n","e">>, <<>>},
        args \in {None, PyList(<<(* "--cycle" *) <<"-","-","c","y","c","l","e">>, (* "--prompt" *) <<"-","-","p","r","o","m","p","t">>>>), PyList(<<(* "it's" *) <<"i","t","'","s">>, <<>>>>)},
        c \in Constructs,
        k \in Clients}

InitExec ==
    /\ PICKERS = ShippedPickers
    /\ RUN_STRATEGIES = ShippedStrategies
    /\ _pyfzf_prompt = 0
    /\ constructed = 0
    /\ call \in ExitRequests \cup RenderRequests \cup PyfzfRequests
    /\ outcome = Return(None)
    /\ launches = <<>>
    /\ client_calls = <<>>
    /\ stderr = <<>>

RunShell ==
    /\ call.op = "_run_shell"
    /\ call.state = "pending"
    /\ LET r == _run_shell(call.entries, call.title, call.command, call.args,
                           call.success_exit_codes, call.ignore_exit_codes,
                           call.entry_separator, call.env)
       IN  /\ outcome' = r.out
           /\ launches' = r.launches
    /\ call' = [call EXCEPT !.state = "done"]
    /\ UNCHANGED <<PICKERS, RUN_STRATEGIES, _pyfzf_prompt, constructed, client_calls, stderr>>

RunPyfzf ==
    /\ call.op = "_run_pyfzf"
    /\ call.state = "pending"
    /\ LET r == _run_pyfzf(call.entries, call.title, call.args,
                           _pyfzf_prompt, constructed, call.env)
       IN  /\ outcome' = r.out
           /\ client_calls' = r.client_calls
           /\ _pyfzf_prompt' = r.client
           /\ constructed' = r.constructed
    /\ call' = [call EXCEPT !.state = "done"]
    /\ UNCHANGED <<PICKERS, RUN_STRATEGIES, launches, stderr>>

NextExec == RunShell \/ RunPyfzf

SpecExec == InitExec /\ [][NextExec]_vars

----------------------------------------------------------------------------
(* The claims *)

Contains(hay, needle) ==
    \E i \in 0..(Len(hay) - Len(needle)) : SubSeq(hay, i + 1, i + Len(needle)) = needle

StartsWith(s, p) == Len(s) >= Len(p) /\ SubSeq(s, 1, Len(p)) = p

Nothing == Return(None)

PromptDone == call.op = "prompt"
ShellDone == call.op = "_run_shell" /\ call.state = "done"
PyfzfDone == call.op = "_run_pyfzf" /\ call.state = "done"

\* the preset a prompt call names, and whether there is one
NamedId == Strip(call.picker_id)
Named == \E i \in 1..Len(PICKERS) : PICKERS[i][1] = NamedId
NamedConfig == PICKERS[CHOOSE i \in 1..Len(PICKERS) : PICKERS[i][1] = NamedId][2]

NothingInvoked == launches = <<>> /\ client_calls = <<>>

\* C1: prompt never raises to its caller: whatever the preset identifier, the
\* registry entry it names and the executor's outcome, the call returns the
\* selected string or None.
C1_PromptNeverRaises ==
    PromptDone => outcome.kind = "return" /\ outcome.value.t \in {"None", "str"}

\* C2 as claimed: an identifier that is no key of the registry after trimming
\* gives None, one diagnostic that lists every valid identifier and no
\* executor call; an identifier that is a key after trimming is resolved to
\* that preset.
C2_UnknownPresetAlwaysPrinted ==
    PromptDone =>
        /\ ~Named =>
            /\ outcome = Nothing
            /\ NothingInvoked
            /\ Len(stderr) = 1
            /\ stderr[1].kind = "unknown_preset"
            /\ \A i \in 1..Len(PICKERS) : Contains(stderr[1].text, PICKERS[i][1])
        /\ Named => call.preset = NamedConfig

\* C2 as amended: the same, the diagnostic being printed when the silence flag
\* is not set, and nothing being printed when it is.
C2_UnknownPreset ==
    PromptDone =>
        /\ ~Named =>
            /\ outcome = Nothing
            /\ NothingInvoked
            /\ call.silent => stderr = <<>>
            /\ ~call.silent =>
                /\ Len(stderr) = 1
                /\ stderr[1].kind = "unknown_preset"
                /\ \A i \in 1..Len(PICKERS) : Contains(stderr[1].text, PICKERS[i][1])
        /\ Named => call.preset = NamedConfig

C2_Witness ==
    /\ PromptDone
    /\ call.picker_id = (* "nope" *) <<"n","o","p","e">>
    /\ ~call.silent
    /\ Len(stderr) = 1
    /\ outcome = Nothing

\* the named preset's strategy field is missing, empty or whitespace only, or
\* names no strategy of the table, or one whose value is no function
Misconfigured ==
    /\ PromptDone
    /\ Named
    /\ LET items == NamedConfig.v
           has == \E i \in 1..Len(items) : items[i][1] = (* "strategy" *) <<"s","t","r","a","t","e","g","y">>
           field == items[CHOOSE i \in 1..Len(items) : items[i][1] = (* "strategy" *) <<"s","t","r","a","t","e","g","y">>][2]
       IN  \/ ~has
           \/ /\ field.t = "str"
              /\ \/ Strip(field.v) = <<>>
                 \/ \A i \in 1..Len(RUN_STRATEGIES) :
                        RUN_STRATEGIES[i][1] = Strip(field.v)
                            => RUN_STRATEGIES[i][2].t # "function"

\* C3 as claimed: such a preset gives None, one internal-error diagnostic and
\* no executor call.
C3_MisconfiguredAlwaysPrinted ==
    Misconfigured =>
        /\ outcome = Nothing
        /\ NothingInvoked
        /\ Len(stderr) = 1
        /\ StartsWith(stderr[1].text, (* "Internal Error:" *) <<"I","n","t","e","r","n","a","l"," ","E","r","r","o","r",":">>)

\* C3 as amended: the same, the diagnostic being printed when the silence flag
\* is not set, and nothing being printed when it is.
C3_Misconfigured ==
    Misconfigured =>
        /\ outcome = Nothing
        /\ NothingInvoked
        /\ call.silent => stderr = <<>>
        /\ ~call.silent =>
            /\ Len(stderr) = 1
            /\ StartsWith(stderr[1].text, (* "Internal Error:" *) <<"I","n","t","e","r","n","a","l"," ","E","r","r","o","r",":">>)

C3_Witness ==
    /\ Misconfigured
    /\ NamedId = (* "broken" *) <<"b","r","o","k","e","n">>
    /\ ~call.silent
    /\ Len(stderr) = 1
    /\ stderr[1].kind = "not_callable"

\* a prompt call with diagnostics enabled on the terminal finder or the
\* graphical dialog, whose subprocess ran to its end
ShellPresetRan ==
    /\ PromptDone
    /\ ~call.silent
    /\ NamedId \in {(* "fzf" *) <<"f","z","f">>, (* "zenity" *) <<"z","e","n","i","t","y">>}
    /\ call.env.proc.kind = "completed"

Cancelled ==
    \/ NamedId = (* "fzf" *) <<"f","z","f">> /\ call.env.proc.returncode = 130
    \/ NamedId = (* "zenity" *) <<"z","e","n","i","t","y">> /\ call.env.proc.returncode = 1

\* C5 as claimed: with diagnostics enabled, exit code 130 of fzf and exit code
\* 1 of zenity give None and no diagnostic; exit code 0 gives the trimmed
\* stdout and no diagnostic; any other exit code gives an error diagnostic and
\* None.
C5_ExitZeroGivesStdout ==
    ShellPresetRan =>
        IF call.env.proc.returncode = 0
        THEN outcome = Return(PyStr(Strip(call.env.proc.stdout))) /\ stderr = <<>>
        ELSE IF Cancelled
        THEN outcome = Nothing /\ stderr = <<>>
        ELSE outcome = Nothing /\ Len(stderr) = 1 /\ stderr[1].kind = "executor_error"

\* C5 as amended: the same, exit code 0 giving None when the trimmed stdout is
\* empty.
C5_CancelNotLogged ==
    ShellPresetRan =>
        IF call.env.proc.returncode = 0
        THEN /\ outcome = IF Strip(call.env.proc.stdout) # <<>>
                          THEN Return(PyStr(Strip(call.env.proc.stdout)))
                          ELSE Nothing
             /\ stderr = <<>>
        ELSE IF Cancelled
        THEN outcome = Nothing /\ stderr = <<>>
        ELSE outcome = Nothing /\ Len(stderr) = 1 /\ stderr[1].kind = "executor_error"

C5_Witness ==
    /\ ShellPresetRan
    /\ NamedId = (* "zenity" *) <<"z","e","n","i","t","y">>
    /\ call.env.proc.returncode = 2
    /\ Len(stderr) = 1
    /\ Len(launches) = 1

\* C9: the shared client is made at most once: it is absent until an
\* embedded-prompt call makes it, every later embedded-prompt call uses that
\* instance, no call resets or replaces it, and a call that runs a subprocess
\* or ends in a configuration error leaves it as it was.
C9_ClientMadeOnce ==
    [][ /\ constructed' <= 1
        /\ (_pyfzf_prompt = 0) = (constructed = 0)
        /\ _pyfzf_prompt # 0 => _pyfzf_prompt' = _pyfzf_prompt
        /\ _pyfzf_prompt' # _pyfzf_prompt =>
            /\ constructed' = constructed + 1
            /\ client_calls' # <<>>
        /\ \A i \in 1..Len(client_calls') : client_calls'[i].client = _pyfzf_prompt'
        /\ (launches' # <<>> \/ (stderr' # <<>> /\ stderr'[1].kind # "executor_error"))
            => _pyfzf_prompt' = _pyfzf_prompt
      ]_vars

C9_Witness ==
    /\ PromptDone
    /\ _pyfzf_prompt = 1
    /\ constructed = 1
    /\ call.env.construct.kind = "raise"
    /\ Len(client_calls) = 1
    /\ client_calls[1].client = 1

\* a direct call of the shell executor whose subprocess ran to its end
ShellRan == ShellDone /\ launches # <<>> /\ call.env.kind = "completed"

ListOf(x) == IF x = None THEN <<>> ELSE x.v

IsSuccess == In(call.env.returncode, ListOf(call.success_exit_codes))
IsIgnored == In(call.env.returncode, ListOf(call.ignore_exit_codes))

\* the trimmed stderr, or the message that stands for an empty one
ErrText ==
    IF Strip(call.env.stderr) # <<>> THEN Strip(call.env.stderr)
    ELSE (* "No error message returned." *) <<"N","o"," ","e","r","r","o","r"," ","m","e","s","s","a","g","e"," ","r","e","t","u","r","n","e","d",".">>

\* C4 as claimed: a code of the success list gives the trimmed stdout, or None
\* when that is empty, also when the code is in the ignore list too; otherwise
\* a code of the ignore list gives None; otherwise the call fails with a
\* RuntimeError whose message contains the exit code and the trimmed stderr.
C4_MessageHoldsStderr ==
    ShellRan =>
        IF IsSuccess
        THEN outcome = IF Strip(call.env.stdout) # <<>>
                       THEN Return(PyStr(Strip(call.env.stdout)))
                       ELSE Nothing
        ELSE IF IsIgnored
        THEN outcome = Nothing
        ELSE /\ outcome.kind = "raise"
             /\ outcome.exc = "RuntimeError"
             /\ Contains(outcome.msg, IntStr(call.env.returncode))
             /\ Contains(outcome.msg, ErrText)

\* C4 as amended: the same, the message containing the trimmed stderr with
\* each of its lines that is not blank indented by two spaces.
C4_ExitClassified ==
    ShellRan =>
        IF IsSuccess
        THEN outcome = IF Strip(call.env.stdout) # <<>>
                       THEN Return(PyStr(Strip(call.env.stdout)))
                       ELSE Nothing
        ELSE IF IsIgnored
        THEN outcome = Nothing
        ELSE /\ outcome.kind = "raise"
             /\ outcome.exc = "RuntimeError"
             /\ Contains(outcome.msg, IntStr(call.env.returncode))
             /\ Contains(outcome.msg, indent(ErrText, (* "  " *) <<" "," ">>))

C4_Witness ==
    /\ ShellRan
    /\ IsSuccess
    /\ IsIgnored
    /\ outcome = Return(PyStr((* "libfoo.so.6" *) <<"l","i","b","f","o","o",".","s","o",".","6">>))

\* C6: a command that is empty or whitespace only makes the shell executor
\* fail with a ValueError, and no subprocess is launched in that call.
C6_EmptyCommandNeverLaunches ==
    ShellDone /\ Strip(call.command.v) = <<>> =>
        /\ outcome.kind = "raise"
        /\ outcome.exc = "ValueError"
        /\ launches = <<>>

C6_Witness ==
    /\ ShellDone
    /\ call.command.v = (* " \t" *) <<" ","\t">>
    /\ call.args # None
    /\ outcome.exc = "ValueError"

\* the template with every $title and ${title} replaced by the title and
\* everything else left as it is
RECURSIVE TitleReplaced(_, _)
TitleReplaced(t, title) ==
    IF t = <<>> THEN <<>>
    ELSE IF StartsWith(t, (* "$title" *) <<"$","t","i","t","l","e">>) /\ (Len(t) = 6 \/ ~IsIdChar(t[7]))
    THEN title \o TitleReplaced(SubSeq(t, 7, Len(t)), title)
    ELSE IF StartsWith(t, (* "${title}" *) <<"$","{","t","i","t","l","e","}">>)
    THEN title \o TitleReplaced(SubSeq(t, 9, Len(t)), title)
    ELSE <<Head(t)>> \o TitleReplaced(Tail(t), title)

\* a "$" that starts a placeholder: $name or ${name}
HasPlaceholder(t) ==
    \E i \in 1..Len(t) :
        /\ t[i] = "$"
        /\ LET r == SubSeq(t, i + 1, Len(t))
           IN  \/ IdLen(r) > 0
               \/ /\ r # <<>>
                  /\ Head(r) = "{"
                  /\ IdLen(Tail(r)) > 0
                  /\ Len(r) >= IdLen(Tail(r)) + 2
                  /\ r[IdLen(Tail(r)) + 2] = "}"

HasEscape(t) == Contains(t, (* "$$" *) <<"$","$">>)

\* the arguments the subprocess was launched with, after the command
Rendered == Tail(launches[1].cmd)

C8_FirstOrNone ==
    PyfzfDone =>
        IF call.env.construct.kind = "raise"
        THEN outcome = call.env.construct /\ client_calls = <<>>
        ELSE IF call.env.client.kind = "raise"
        THEN outcome = call.env.client
        ELSE IF call.env.client.value.v = <<>>
        THEN outcome = Nothing
        ELSE outcome = Return(PyStr(call.env.client.value.v[1]))

C8_Witness ==
    /\ PyfzfDone
    /\ Len(call.env.client.value.v) = 2
    /\ outcome = Return(PyStr((* "libbar.so" *) <<"l","i","b","b","a","r",".","s","o">>))
    /\ Len(client_calls) = 1

\* the error raised inside the try of a direct shell call that launched
Unexpected == ShellRan /\ ~IsSuccess /\ ~IsIgnored
LaunchFailed == ShellDone /\ launches # <<>> /\ call.env.kind = "raise"
ExitMessage == (* "Exit code " *) <<"E","x","i","t"," ","c","o","d","e"," ">> \o IntStr(call.env.returncode) \o (* ": \n" *) <<":"," ","\n">> \o ErrText

\* C10 as claimed: an executable that is not found makes the executor fail
\* with a FileNotFoundError that names the command and is not wrapped; every
\* other failure comes out as a RuntimeError whose message includes the
\* message of the original error.
C10_MessageHoldsOriginal ==
    /\ LaunchFailed /\ call.env.exc = "FileNotFoundError" =>
        /\ outcome.exc = "FileNotFoundError"
        /\ Contains(outcome.msg, Strip(call.command.v))
        /\ ~Contains(outcome.msg, (* "Failed to execute shell command" *) <<"F","a","i","l","e","d"," ","t","o"," ","e","x","e","c","u","t","e"," ","s","h","e","l","l"," ","c","o","m","m","a","n","d">>)
    /\ LaunchFailed /\ call.env.exc # "FileNotFoundError" =>
        /\ outcome.exc = "RuntimeError"
        /\ Contains(outcome.msg, call.env.msg)
    /\ Unexpected =>
        /\ outcome.exc = "RuntimeError"
        /\ Contains(outcome.msg, ExitMessage)

\* C10 as amended: the same, the RuntimeError's message including the message
\* of the original error with each of its lines that is not blank indented by
\* two spaces.
C10_ErrorKindsKept ==
    /\ LaunchFailed /\ call.env.exc = "FileNotFoundError" =>
        /\ outcome.exc = "FileNotFoundError"
        /\ Contains(outcome.msg, Strip(call.command.v))
        /\ ~Contains(outcome.msg, (* "Failed to execute shell command" *) <<"F","a","i","l","e","d"," ","t","o"," ","e","x","e","c","u","t","e"," ","s","h","e","l","l"," ","c","o","m","m","a","n","d">>)
    /\ LaunchFailed /\ call.env.exc # "FileNotFoundError" =>
        /\ outcome.exc = "RuntimeError"
        /\ Contains(outcome.msg, indent(call.env.msg, (* "  " *) <<" "," ">>))
    /\ Unexpected =>
        /\ outcome.exc = "RuntimeError"
        /\ Contains(outcome.msg, indent(ExitMessage, (* "  " *) <<" "," ">>))

C10_Witness ==
    /\ LaunchFailed
    /\ call.env.exc = "FileNotFoundError"
    /\ call.command.v = (* " fzf\n" *) <<" ","f","z","f","\n">>
    /\ outcome.exc = "FileNotFoundError"

============================================================================
